---- MODULE Spec2Model ----
(***************************************************************************)
(* symlink-manager (src/program.py): files and directories of the home     *)
(* directory are moved into per-storage backing directories and replaced   *)
(* by symlinks (apply_additions), and moved back (apply_removals).         *)
(*                                                                         *)
(* Strings are sequences of one-character strings.  The filesystem is a    *)
(* function from the real location of an entry (a sequence of path         *)
(* components) to its node; paths given to the os functions are resolved   *)
(* through symlinks as the kernel does.                                    *)
(***************************************************************************)
EXTENDS Naturals, Sequences, FiniteSets, TLC

VARIABLES
    fs,        \* the filesystem: real location -> node
    cfg,       \* the configuration: the (storage, raw_path) keys in iteration order
    pc,        \* "idle", or the pass that is running: "add" / "rem"
    tasks,     \* the sorted task list not yet iterated over
    answers,   \* what the operator answered in this pass: <<src, dst>> -> BOOLEAN
    cur,       \* the running (or last) pass: how it started, what it built
    last,      \* what the last task step did
    trace,     \* the passes that ended, oldest first
    inP,       \* pure-function checks: first raw path
    inQ,       \* pure-function checks: second raw path
    derived    \* pure-function checks: what was derived from inP and inQ

vars == <<fs, cfg, pc, tasks, answers, cur, last, trace, inP, inQ, derived>>

\* ------------------------------------------------------------------ bounds

\* Declarations in a configuration.
MaxDecls == 2
\* Passes (calls of apply_additions / apply_removals) in one behaviour.
MaxPasses == 2
\* Pieces a raw path of the derivation checks is concatenated from.
MaxParts == 4
\* Symlinks followed while resolving one path (the kernel's ELOOP limit).
MaxFollow == 4

\* ----------------------------------------------------------------- strings

\* src/program.py:5 -- the home directory, here "/h".
HOME == <<"/", "h">>

HomeToken == <<"H", "O", "M", "E">>

HomeSlash == <<"H", "O", "M", "E", "/">>

StartsWith(s, pre) ==
    /\ Len(pre) <= Len(s)
    /\ SubSeq(s, 1, Len(pre)) = pre

EndsWith(s, suf) ==
    /\ Len(suf) <= Len(s)
    /\ SubSeq(s, Len(s) - Len(suf) + 1, Len(s)) = suf

Drop(s, n) == SubSeq(s, n + 1, Len(s))

\* str.replace(old, new, count): left to right, non-overlapping; count < 0 is
\* written as a count no string reaches.
RECURSIVE Replace(_, _, _, _)
Replace(s, old, new, count) ==
    IF s = <<>> \/ count = 0 THEN s
    ELSE IF StartsWith(s, old)
         THEN new \o Replace(Drop(s, Len(old)), old, new, count - 1)
         ELSE <<Head(s)>> \o Replace(Tail(s), old, new, count)

ReplaceAll(s, old, new) == Replace(s, old, new, Len(s) + 1)

\* str.rstrip(chars) for a one-character set.
RECURSIVE RStrip(_, _)
RStrip(s, ch) ==
    IF s # <<>> /\ s[Len(s)] = ch THEN RStrip(SubSeq(s, 1, Len(s) - 1), ch) ELSE s

\* str.lstrip(): leading whitespace.
RECURSIVE LStrip(_)
LStrip(s) ==
    IF s # <<>> /\ Head(s) = " " THEN LStrip(Tail(s)) ELSE s

\* os.path.join(a, b) on POSIX.
Join(a, b) ==
    IF StartsWith(b, <<"/">>) THEN b
    ELSE IF a = <<>> \/ EndsWith(a, <<"/">>) THEN a \o b
    ELSE a \o <<"/">> \o b

\* Index of the last "/" of s, 0 when there is none.
RECURSIVE LastSlash(_)
LastSlash(s) ==
    IF s = <<>> THEN 0
    ELSE IF s[Len(s)] = "/" THEN Len(s)
    ELSE LastSlash(SubSeq(s, 1, Len(s) - 1))

AllSlashes(s) == \A i \in 1..Len(s) : s[i] = "/"

\* os.path.dirname(p) on POSIX.
Dirname(p) ==
    LET head == SubSeq(p, 1, LastSlash(p))
    IN IF head # <<>> /\ ~AllSlashes(head) THEN RStrip(head, "/") ELSE head

\* shutil._basename(p): the last component, trailing slashes ignored.
Basename(p) ==
    LET q == RStrip(p, "/")
    IN Drop(q, LastSlash(q))

\* The components of a path, empty ones dropped.
RECURSIVE SplitFrom(_, _)
SplitFrom(s, acc) ==
    IF s = <<>> THEN (IF acc = <<>> THEN <<>> ELSE <<acc>>)
    ELSE IF Head(s) = "/"
         THEN (IF acc = <<>> THEN <<>> ELSE <<acc>>) \o SplitFrom(Tail(s), <<>>)
         ELSE SplitFrom(Tail(s), Append(acc, Head(s)))

Split(s) == SplitFrom(s, <<>>)

\* src/program.py:14-17
normalize_path(path) ==
    LET p1 == ReplaceAll(path, HomeToken, HOME)
    IN ReplaceAll(ReplaceAll(p1, <<"-">>, <<"-", "-">>), <<"/">>, <<"-">>)

\* -------------------------------------------------------------- filesystem

FileNode(content) == [kind |-> "file", data |-> content]

DirNode == [kind |-> "dir", data |-> <<>>]

LinkNode(target) == [kind |-> "link", data |-> target]

Front(s) == SubSeq(s, 1, Len(s) - 1)

\* loc is top or below it.
Under(loc, top) ==
    /\ Len(top) <= Len(loc)
    /\ SubSeq(loc, 1, Len(top)) = top

Children(f, loc) == {q \in DOMAIN f : Len(q) = Len(loc) + 1 /\ Under(q, loc)}

NoEnt == [st |-> "err", loc |-> <<>>]

\* Path resolution: from the real directory at, walk the components rest.
\* "ok": the entry exists at loc; "new": it does not, its parent directory
\* exists and loc is where it would be created; "err": ENOENT/ENOTDIR/ELOOP.
\* follow says whether a symlink in the last component is followed.
RECURSIVE Walk(_, _, _, _, _)
Walk(f, at, rest, follow, fuel) ==
    IF rest = <<>> THEN [st |-> "ok", loc |-> at]
    ELSE IF f[at].kind # "dir" THEN NoEnt
    ELSE LET nxt == Append(at, Head(rest))
             more == Tail(rest)
         IN IF nxt \notin DOMAIN f
            THEN (IF more = <<>> THEN [st |-> "new", loc |-> nxt] ELSE NoEnt)
            ELSE IF f[nxt].kind = "link" /\ (more # <<>> \/ follow)
                 THEN (IF fuel = 0 THEN NoEnt
                       ELSE Walk(f, <<>>, Split(f[nxt].data) \o more, follow, fuel - 1))
                 ELSE Walk(f, nxt, more, follow, fuel)

\* os.stat: symlinks followed.
Stat(f, path) == Walk(f, <<>>, Split(path), TRUE, MaxFollow)

\* os.lstat: the last component is not followed.
Lstat(f, path) == Walk(f, <<>>, Split(path), FALSE, MaxFollow)

Exists(f, path) == Stat(f, path).st = "ok"

IsDir(f, path) == LET r == Stat(f, path) IN r.st = "ok" /\ f[r.loc].kind = "dir"

IsFile(f, path) == LET r == Stat(f, path) IN r.st = "ok" /\ f[r.loc].kind = "file"

IsLink(f, path) == LET r == Lstat(f, path) IN r.st = "ok" /\ f[r.loc].kind = "link"

ReadLink(f, path) == f[Lstat(f, path).loc].data

\* The device a real location is on: everything below /B is a second device.
DevOf(loc) == IF loc # <<>> /\ loc[1] = <<"B">> THEN "dev2" ELSE "dev1"

Raise(f) == [ok |-> FALSE, fs |-> f]

Done(f) == [ok |-> TRUE, fs |-> f]

Put(f, loc, node) == [q \in DOMAIN f \cup {loc} |-> IF q = loc THEN node ELSE f[q]]

Del(f, loc) == [q \in DOMAIN f \ {loc} |-> f[q]]

\* os.remove(path): a file or a symlink, never a directory.
FsRemove(f, path) ==
    LET r == Lstat(f, path)
    IN IF r.st = "ok" /\ f[r.loc].kind # "dir" THEN Done(Del(f, r.loc)) ELSE Raise(f)

\* os.symlink(target, path): FileExistsError when anything is at path.
FsSymlink(f, target, path) ==
    LET r == Lstat(f, path)
    IN IF r.st = "new" THEN Done(Put(f, r.loc, LinkNode(target))) ELSE Raise(f)

\* os.makedirs(path, exist_ok=True), on the components of path.
RECURSIVE MakedirsAt(_, _)
MakedirsAt(f, comps) ==
    LET s == Walk(f, <<>>, comps, TRUE, MaxFollow)
        l == Walk(f, <<>>, comps, FALSE, MaxFollow)
    IN IF s.st = "ok" THEN (IF f[s.loc].kind = "dir" THEN Done(f) ELSE Raise(f))
       ELSE IF l.st = "ok" \/ comps = <<>> THEN Raise(f)
       ELSE LET par == MakedirsAt(f, Front(comps))
                n == Walk(par.fs, <<>>, comps, FALSE, MaxFollow)
            IN IF par.ok /\ n.st = "new" THEN Done(Put(par.fs, n.loc, DirNode))
               ELSE Raise(f)

FsMakedirs(f, path) == MakedirsAt(f, Split(path))

\* open(path, 'a').close(): creates an empty file, leaves an existing one alone.
FsTouch(f, path) ==
    LET r == Stat(f, path)
    IN IF r.st = "ok" THEN (IF f[r.loc].kind = "file" THEN Done(f) ELSE Raise(f))
       ELSE IF r.st = "new" THEN Done(Put(f, r.loc, FileNode(<<>>)))
       ELSE Raise(f)

\* os.listdir(path) of an existing directory.
ListDir(f, path) == Children(f, Stat(f, path).loc)

\* os.rmdir(path): an empty directory.
FsRmdir(f, path) ==
    LET r == Lstat(f, path)
    IN IF r.st = "ok" /\ f[r.loc].kind = "dir" /\ Children(f, r.loc) = {}
       THEN Done(Del(f, r.loc)) ELSE Raise(f)

\* A copy in place of the move: the subtree at from also stays where it was.
MoveTreeKeepsSource(f, from, to) ==
    LET gone == {q \in DOMAIN f : Under(q, to)}
        come == {to \o Drop(q, Len(from)) : q \in {x \in DOMAIN f : Under(x, from)}}
    IN [q \in (DOMAIN f \ gone) \cup come |->
            IF q \in come THEN f[from \o Drop(q, Len(to))] ELSE f[q]]

\* The subtree at from becomes the subtree at to (what was at to is replaced).
MoveTree(f, from, to) ==
    LET gone == {q \in DOMAIN f : Under(q, from) \/ Under(q, to)}
        come == {to \o Drop(q, Len(from)) : q \in {x \in DOMAIN f : Under(x, from)}}
    IN [q \in (DOMAIN f \ gone) \cup come |->
            IF q \in come THEN f[from \o Drop(q, Len(to))] ELSE f[q]]

\* os.rename(src, dst), and shutil.move's copy-and-delete when rename fails:
\* a file replaces an existing file, nothing replaces or lands on a directory.
FsRename(f, src, dst) ==
    LET s == Lstat(f, src)
        d == Lstat(f, dst)
    IN IF s.st # "ok" \/ d.st = "err" THEN Raise(f)
       ELSE IF Under(d.loc, s.loc) THEN Raise(f)
       ELSE IF d.st = "new" THEN Done(MoveTree(f, s.loc, d.loc))
       ELSE IF f[d.loc].kind = "dir" \/ f[s.loc].kind = "dir" THEN Raise(f)
       ELSE Done(MoveTree(f, s.loc, d.loc))

\* shutil.move(src, dst): into dst when dst is a directory.
ShMove(f, src, dst) ==
    IF IsDir(f, dst)
    THEN IF Stat(f, src) = Stat(f, dst) THEN Done(f)
         ELSE LET real_dst == Join(dst, Basename(src))
              IN IF Exists(f, real_dst) THEN Raise(f) ELSE FsRename(f, src, real_dst)
    ELSE FsRename(f, src, dst)

\* ----------------------------------------------------- deriving the tasks

\* config["dirs"]: the storages in their order, and their base directories.
Storages == <<"A", "B">>

BaseDir(sid) == IF sid = "A" THEN <<"/", "A">> ELSE <<"/", "B">>

\* src/program.py:49 and 91 -- raw_path.startswith("-")
IsRemoval(raw) == StartsWith(raw, <<"-">>)

Task(src, dst, is_dir) == [src |-> src, dst |-> dst, is_dir |-> is_dir]

\* src/program.py:51-54 -- the task apply_additions derives from a key.
AddDerive(base_dir, raw) ==
    LET base_path == RStrip(ReplaceAll(raw, HomeSlash, <<>>), "/")
    IN Task(Join(HOME, base_path),
            Join(base_dir, RStrip(normalize_path(base_path), "-")),
            EndsWith(raw, <<"/">>))

\* src/program.py:93-97 -- the task apply_removals derives from a marked key.
RemDerive(base_dir, raw) ==
    LET base_path == RStrip(Replace(LStrip(Tail(raw)), HomeSlash, <<>>, 1), "/")
    IN Task(Join(HOME, base_path),
            Join(base_dir, RStrip(normalize_path(base_path), "-")),
            EndsWith(raw, <<"/">>))

\* handle_path_conflict without its type comparison: every declaration passes.
NoConflictCheck(f, src, is_dir) == TRUE

\* src/program.py:33-42 -- TRUE when the declaration may be processed.
handle_path_conflict(f, src, is_dir) ==
    IF Exists(f, src)
    THEN IF is_dir /\ ~IsDir(f, src) THEN FALSE
         ELSE IF ~is_dir /\ ~IsFile(f, src) THEN FALSE
         ELSE TRUE
    ELSE TRUE

\* src/program.py:46-59 -- the task list of apply_additions, in key order.
RECURSIVE BuildAdditions(_, _)
BuildAdditions(f, c) ==
    IF c = <<>> THEN <<>>
    ELSE LET d == Head(c)
             t == AddDerive(BaseDir(d.sid), d.raw)
             rest == BuildAdditions(f, Tail(c))
         IN IF IsRemoval(d.raw) THEN rest
            ELSE IF ~handle_path_conflict(f, t.src, t.is_dir) THEN rest
            ELSE <<t>> \o rest

\* src/program.py:88-102 -- the task list of apply_removals, in key order.
RECURSIVE BuildRemovals(_, _)
BuildRemovals(f, c) ==
    IF c = <<>> THEN <<>>
    ELSE LET d == Head(c)
             t == RemDerive(BaseDir(d.sid), d.raw)
             rest == BuildRemovals(f, Tail(c))
         IN IF ~IsRemoval(d.raw) THEN rest
            ELSE IF ~handle_path_conflict(f, t.src, t.is_dir) THEN rest
            ELSE <<t>> \o rest

\* sorted() is stable, also with reverse=True: t goes behind the tasks that
\* sort before it or equal to it.
InsertByLen(acc, t, desc) ==
    LET k == Cardinality({i \in 1..Len(acc) :
                 IF desc THEN Len(acc[i].src) >= Len(t.src)
                         ELSE Len(acc[i].src) <= Len(t.src)})
    IN SubSeq(acc, 1, k) \o <<t>> \o SubSeq(acc, k + 1, Len(acc))

RECURSIVE SortInto(_, _, _)
SortInto(ts, acc, desc) ==
    IF ts = <<>> THEN acc
    ELSE SortInto(Tail(ts), InsertByLen(acc, Head(ts), desc), desc)

\* The sort of line 62 without reverse=True: shortest src first.
SortAdditionsAscending(ts) == SortInto(ts, <<>>, FALSE)

\* src/program.py:62 -- sorted(tasks, key=lambda x: len(x[0]), reverse=True)
SortAdditions(ts) == SortInto(ts, <<>>, TRUE)

\* The sort of line 105 with reverse=True: longest src first.
SortRemovalsDescending(ts) == SortInto(ts, <<>>, TRUE)

\* src/program.py:105 -- sorted(tasks, key=lambda x: len(x[0]))
SortRemovals(ts) == SortInto(ts, <<>>, FALSE)

\* ------------------------------------------------------- handling one task

\* src/program.py:19-23 -- os.stat raises when a path does not exist.
is_same_device(f, path1, path2) ==
    LET s1 == Stat(f, path1)
        s2 == Stat(f, path2)
    IN [raise |-> s1.st # "ok" \/ s2.st # "ok",
        same |-> s1.st = "ok" /\ s2.st = "ok" /\ DevOf(s1.loc) = DevOf(s2.loc)]

\* confirm_move without its device comparison: never asks, always proceeds.
ConfirmWithoutAsking(f, src, dst, ans) == [raise |-> FALSE, asked |-> FALSE, go |-> TRUE]

\* confirm_move returning True whatever the operator typed.
ConfirmIgnoringAnswer(f, src, dst, ans) ==
    LET d == is_same_device(f, src, Dirname(dst))
    IN [raise |-> d.raise, asked |-> ~d.raise /\ ~d.same, go |-> ~d.raise]

\* src/program.py:25-31 -- ans is what the operator types when asked.
confirm_move(f, src, dst, ans) ==
    LET d == is_same_device(f, src, Dirname(dst))
    IN [raise |-> d.raise,
        asked |-> ~d.raise /\ ~d.same,
        go |-> ~d.raise /\ (d.same \/ ans)]

\* The filesystem operations one task performs at most (os.remove,
\* os.makedirs, shutil.move, os.rmdir).
TaskOps == 4

Res(f, end, asked, wrong, cleaned) ==
    [fs |-> f, end |-> end, asked |-> asked, wrong |-> wrong, cleaned |-> cleaned]

\* src/program.py:63-64 -- src is a symlink that reads exactly dst.
AlreadyLinked(f, t) == IsLink(f, t.src) /\ ReadLink(f, t.src) = t.dst

\* Line 69 as it reads without its comment sign: os.remove(src).
WrongLinkRemoves(f, t) == FsRemove(f, t.src).fs

\* src/program.py:67-69 -- a symlink to somewhere else is reported; the
\* os.remove(src) is commented out, and nothing leaves the iteration.
WrongLink(f, t) == f

\* src/program.py:76 -- shutil.move(src, dst)
MoveIn(f, t) == ShMove(f, t.src, t.dst)

\* src/program.py:78-81 -- neither exists: an empty directory or file at dst.
Materialize(f, t) == IF t.is_dir THEN FsMakedirs(f, t.dst) ELSE FsTouch(f, t.dst)

\* src/program.py:62-84 -- one iteration of the loop of apply_additions.  The
\* process is killed before the filesystem operation number cut + 1.
AddTask(f, t, ans, cut) ==
    LET LinkStep(g, used, asked, wrong) ==
            IF used >= cut THEN Res(g, "killed", asked, wrong, FALSE)
            ELSE LET s == FsSymlink(g, t.dst, t.src)
                 IN IF s.ok THEN Res(s.fs, "linked", asked, wrong, FALSE)
                    ELSE Res(g, "raise", asked, wrong, FALSE)
    IN IF IsLink(f, t.src)
       THEN IF AlreadyLinked(f, t)
            THEN Res(f, "already", FALSE, FALSE, FALSE)
            ELSE LinkStep(WrongLink(f, t), 0, FALSE, TRUE)
       ELSE IF Exists(f, t.src)
       THEN LET c == confirm_move(f, t.src, t.dst, ans)
                m == MoveIn(f, t)
            IN IF c.raise THEN Res(f, "raise", FALSE, FALSE, FALSE)
               ELSE IF ~c.go THEN Res(f, "cancel", c.asked, FALSE, FALSE)
               ELSE IF cut = 0 THEN Res(f, "killed", c.asked, FALSE, FALSE)
               ELSE IF ~m.ok THEN Res(f, "raise", c.asked, FALSE, FALSE)
               ELSE LinkStep(m.fs, 1, c.asked, FALSE)
       ELSE LET m == Materialize(f, t)
            IN IF cut = 0 THEN Res(f, "killed", FALSE, FALSE, FALSE)
               ELSE IF ~m.ok THEN Res(f, "raise", FALSE, FALSE, FALSE)
               ELSE LinkStep(m.fs, 1, FALSE, FALSE)

\* The test of line 106 without its readlink comparison: any symlink.
AnyLink(f, t) == IsLink(f, t.src)

\* src/program.py:106 -- os.path.islink(src) and os.readlink(src) == dst
CorrectLink(f, t) == IsLink(f, t.src) /\ ReadLink(f, t.src) = t.dst

\* src/program.py:105-123 -- one iteration of the loop of apply_removals.
RemTask(f, t, ans, cut) ==
    LET Cleanup(g, used, asked) ==
            IF IsDir(g, t.dst) /\ ListDir(g, t.dst) = {}
            THEN IF used >= cut THEN Res(g, "killed", asked, FALSE, FALSE)
                 ELSE LET r4 == FsRmdir(g, t.dst)
                      IN IF r4.ok THEN Res(r4.fs, "unlinked", asked, FALSE, TRUE)
                         ELSE Res(g, "raise", asked, FALSE, FALSE)
            ELSE Res(g, "unlinked", asked, FALSE, FALSE)
    IN IF CorrectLink(f, t)
       THEN LET r1 == FsRemove(f, t.src)
                c == confirm_move(r1.fs, t.dst, t.src, ans)
                r2 == FsMakedirs(r1.fs, Dirname(t.src))
                r3 == ShMove(r2.fs, t.dst, t.src)
            IN IF cut = 0 THEN Res(f, "killed", FALSE, FALSE, FALSE)
               ELSE IF ~Exists(r1.fs, t.dst) THEN Cleanup(r1.fs, 1, FALSE)
               ELSE IF c.raise THEN Res(r1.fs, "raise", FALSE, FALSE, FALSE)
               ELSE IF ~c.go THEN Res(r1.fs, "cancel", c.asked, FALSE, FALSE)
               ELSE IF cut = 1 THEN Res(r1.fs, "killed", c.asked, FALSE, FALSE)
               ELSE IF ~r2.ok THEN Res(r1.fs, "raise", c.asked, FALSE, FALSE)
               ELSE IF cut = 2 THEN Res(r2.fs, "killed", c.asked, FALSE, FALSE)
               ELSE IF ~r3.ok THEN Res(r2.fs, "raise", c.asked, FALSE, FALSE)
               ELSE Cleanup(r3.fs, 3, c.asked)
       ELSE Res(f, "notlink", FALSE, FALSE, FALSE)

\* A whole pass that nothing interrupts and in which the operator agrees to
\* every move: the filesystem it leaves and how it ends.
RECURSIVE RunTasks(_, _, _)
RunTasks(f, ts, kind) ==
    IF ts = <<>> THEN [fs |-> f, end |-> "done"]
    ELSE LET r == IF kind = "add" THEN AddTask(f, Head(ts), TRUE, TaskOps)
                  ELSE RemTask(f, Head(ts), TRUE, TaskOps)
         IN IF r.end = "raise" THEN [fs |-> r.fs, end |-> "raise"]
            ELSE RunTasks(r.fs, Tail(ts), kind)

\* src/program.py:44-84 and 86-123 -- apply_additions / apply_removals.
RunPass(f, c, kind) ==
    IF kind = "add" THEN RunTasks(f, SortAdditions(BuildAdditions(f, c)), kind)
    ELSE RunTasks(f, SortRemovals(BuildRemovals(f, c)), kind)

\* ------------------------------------------------------------ initial states

Str_a == <<"a">>

Str_b == <<"b">>

Loc_h == <<<<"h">>>>

Loc_ha == <<<<"h">>, <<"a">>>>

Loc_hab == <<<<"h">>, <<"a">>, <<"b">>>>

Loc_hadash == <<<<"h">>, <<"a", "-">>>>

Loc_Aa == <<<<"A">>, <<"a">>>>

\* The root, the home directory and the two base directories.
BaseFs ==
    (<<>> :> DirNode) @@ (Loc_h :> DirNode)
        @@ (<<<<"A">>>> :> DirNode) @@ (<<<<"B">>>> :> DirNode)

Nothing == [q \in {} |-> DirNode]

\* What may be at ~/a: nothing, a file, a directory (empty or holding b), a
\* symlink into storage A, a symlink to somewhere else.
HomeAChoices ==
    { Nothing,
      Loc_ha :> FileNode(<<"x">>),
      Loc_ha :> DirNode,
      (Loc_ha :> DirNode) @@ (Loc_hab :> FileNode(<<"y">>)),
      Loc_ha :> LinkNode(<<"/", "A", "/", "a">>),
      Loc_ha :> LinkNode(<<"/", "z">>) }

\* What may be at ~/a- .
HomeADashChoices == { Nothing, Loc_hadash :> FileNode(<<"w">>) }

\* What may already be at /A/a.
StoreChoices == { Nothing, Loc_Aa :> FileNode(<<"v">>), Loc_Aa :> DirNode }

InitFs == { a @@ d @@ s @@ BaseFs :
              a \in HomeAChoices, d \in HomeADashChoices, s \in StoreChoices }

\* The keys a section may hold: ~/a as a file and as a directory, a file
\* inside it, and ~/a- .
DeclPaths == { <<"a">>, <<"a", "/">>, <<"a", "/", "b">>, <<"a", "-">> }

Decls == [sid : {"A", "B"}, raw : DeclPaths]

StorageIndex(sid) == IF sid = "A" THEN 1 ELSE 2

\* The keys of a configuration in iteration order: storage by storage, no
\* key twice in a section.
Configs ==
    { c \in UNION { [1..n -> Decls] : n \in 1..MaxDecls } :
        \A i, j \in 1..Len(c) :
            i < j => /\ c[i] # c[j]
                     /\ StorageIndex(c[i].sid) <= StorageIndex(c[j].sid) }

NoTask == Task(<<>>, <<>>, FALSE)

NoStep == [task |-> NoTask, end |-> "none", asked |-> FALSE, wrong |-> FALSE,
           cleaned |-> FALSE, pre |-> Nothing]

NoAnswers == [q \in {} |-> TRUE]

\* ~/a- is there only when a key names it: an entry no key names is never
\* looked at.
Relevant(f, c) ==
    Loc_hadash \in DOMAIN f => \E i \in 1..Len(c) : c[i].raw = <<"a", "-">>

Init ==
    /\ fs \in InitFs
    /\ cfg \in Configs
    /\ Relevant(fs, cfg)
    /\ pc = "idle"
    /\ tasks = <<>>
    /\ answers = NoAnswers
    /\ cur = [kind |-> "none", pre |-> fs, cfg |-> cfg, built |-> <<>>,
              conflict |-> FALSE]
    /\ last = NoStep
    /\ trace = <<>>
    /\ inP = <<>>
    /\ inQ = <<>>
    /\ derived = <<>>

\* ------------------------------------------------------------------ actions

\* Some key of the direction was dropped by handle_path_conflict.
Conflicts(f, c, kind) ==
    \E i \in 1..Len(c) :
        IF kind = "add"
        THEN /\ ~IsRemoval(c[i].raw)
             /\ LET t == AddDerive(BaseDir(c[i].sid), c[i].raw)
                IN ~handle_path_conflict(f, t.src, t.is_dir)
        ELSE /\ IsRemoval(c[i].raw)
             /\ LET t == RemDerive(BaseDir(c[i].sid), c[i].raw)
                IN ~handle_path_conflict(f, t.src, t.is_dir)

Ended(how, given) ==
    [kind |-> cur.kind, end |-> how, cfg |-> cur.cfg, pre |-> cur.pre,
     built |-> cur.built, conflict |-> cur.conflict, answers |-> given]

\* The configuration holds a key of the direction (a pass over none does
\* nothing and is not explored).
HasKeys(c, kind) ==
    \E i \in 1..Len(c) : IsRemoval(c[i].raw) <=> (kind = "rem")

\* No pass was killed so far: a behaviour holds at most one interruption.
NeverKilled == \A i \in 1..Len(trace) : trace[i].end # "killed"

\* src/program.py:44-62 -- apply_additions builds and sorts its task list.
StartAdditions ==
    /\ pc = "idle"
    /\ Len(trace) < MaxPasses
    /\ HasKeys(cfg, "add")
    /\ pc' = "add"
    /\ tasks' = SortAdditions(BuildAdditions(fs, cfg))
    /\ cur' = [kind |-> "add", pre |-> fs, cfg |-> cfg, built |-> tasks',
               conflict |-> Conflicts(fs, cfg, "add")]
    /\ answers' = NoAnswers
    /\ last' = NoStep
    /\ UNCHANGED <<fs, cfg, trace, inP, inQ, derived>>

\* src/program.py:86-105 -- apply_removals builds and sorts its task list.
StartRemovals ==
    /\ pc = "idle"
    /\ Len(trace) < MaxPasses
    /\ HasKeys(cfg, "rem")
    /\ pc' = "rem"
    /\ tasks' = SortRemovals(BuildRemovals(fs, cfg))
    /\ cur' = [kind |-> "rem", pre |-> fs, cfg |-> cfg, built |-> tasks',
               conflict |-> Conflicts(fs, cfg, "rem")]
    /\ answers' = NoAnswers
    /\ last' = NoStep
    /\ UNCHANGED <<fs, cfg, trace, inP, inQ, derived>>

\* The operator's answer to one prompt: the same question gets the same answer
\* within a pass; when nothing is asked the answer is not read.
Answer(ans, r, q) ==
    /\ (r.asked /\ q \in DOMAIN answers) => ans = answers[q]
    /\ ~r.asked => ans
    /\ answers' = IF r.asked THEN (q :> ans) @@ answers ELSE answers

\* What a loop iteration leaves behind: an exception ends the pass.
Stepped(t, r) ==
    /\ fs' = r.fs
    /\ last' = [task |-> t, end |-> r.end, asked |-> r.asked, wrong |-> r.wrong,
                cleaned |-> r.cleaned, pre |-> fs]
    /\ IF r.end \in {"raise", "killed"}
       THEN /\ pc' = "idle"
            /\ tasks' = <<>>
            /\ trace' = Append(trace, Ended(r.end, answers'))
       ELSE /\ pc' = pc
            /\ tasks' = Tail(tasks)
            /\ trace' = trace
    /\ UNCHANGED <<cfg, cur, inP, inQ, derived>>

\* src/program.py:62-84 -- the next task of apply_additions, run to its end.
AddStep ==
    /\ pc = "add"
    /\ tasks # <<>>
    /\ \E ans \in BOOLEAN :
         LET t == Head(tasks)
             r == AddTask(fs, t, ans, TaskOps)
         IN /\ Answer(ans, r, <<t.src, t.dst>>)
            /\ Stepped(t, r)

\* src/program.py:105-123 -- the next task of apply_removals, run to its end.
RemStep ==
    /\ pc = "rem"
    /\ tasks # <<>>
    /\ \E ans \in BOOLEAN :
         LET t == Head(tasks)
             r == RemTask(fs, t, ans, TaskOps)
         IN /\ Answer(ans, r, <<t.dst, t.src>>)
            /\ Stepped(t, r)

\* The process is killed inside an addition task, after cut of its filesystem
\* operations.
AddKill ==
    /\ pc = "add"
    /\ tasks # <<>>
    /\ NeverKilled
    /\ \E ans \in BOOLEAN, cut \in 0..(TaskOps - 1) :
         LET t == Head(tasks)
             r == AddTask(fs, t, ans, cut)
         IN /\ r.end = "killed"
            /\ Answer(ans, r, <<t.src, t.dst>>)
            /\ Stepped(t, r)

\* The process is killed inside a removal task.
RemKill ==
    /\ pc = "rem"
    /\ tasks # <<>>
    /\ NeverKilled
    /\ \E ans \in BOOLEAN, cut \in 0..(TaskOps - 1) :
         LET t == Head(tasks)
             r == RemTask(fs, t, ans, cut)
         IN /\ r.end = "killed"
            /\ Answer(ans, r, <<t.dst, t.src>>)
            /\ Stepped(t, r)

\* src/program.py:62 and 105 -- the loop is over, the pass returns.
Finish ==
    /\ pc \in {"add", "rem"}
    /\ tasks = <<>>
    /\ pc' = "idle"
    /\ trace' = Append(trace, Ended("done", answers))
    /\ UNCHANGED <<fs, cfg, tasks, answers, cur, last, inP, inQ, derived>>

\* Between two runs the user marks a key of the configuration file for
\* removal: "-" in front of it.
Mark ==
    /\ pc = "idle"
    /\ Len(trace) < MaxPasses
    /\ \E i \in 1..Len(cfg) :
         /\ ~IsRemoval(cfg[i].raw)
         /\ cfg' = [cfg EXCEPT ![i].raw = <<"-">> \o @]
    /\ UNCHANGED <<fs, pc, tasks, answers, cur, last, trace, inP, inQ, derived>>

Next ==
    \/ StartAdditions
    \/ StartRemovals
    \/ AddStep
    \/ RemStep
    \/ AddKill
    \/ RemKill
    \/ Finish
    \/ Mark

Spec == Init /\ [][Next]_vars

\* ------------------------------------------- the derivations on their own

\* Raw paths of the derivation checks: up to MaxParts pieces, each the
\* placeholder "HOME/", a name character, "-" or "/".
Pieces == { HomeSlash, <<"a">>, <<"-">>, <<"/">> }

RECURSIVE Concat(_)
Concat(ps) == IF ps = <<>> THEN <<>> ELSE Head(ps) \o Concat(Tail(ps))

RawPaths == { Concat(ps) : ps \in UNION { [1..n -> Pieces] : n \in 1..MaxParts } }

InitDerive ==
    /\ inP \in RawPaths
    /\ inQ \in RawPaths
    /\ derived = [op |-> "none", p |-> <<>>, q |-> <<>>]
    /\ fs = BaseFs
    /\ cfg = <<>>
    /\ pc = "idle"
    /\ tasks = <<>>
    /\ answers = NoAnswers
    /\ cur = [kind |-> "none", pre |-> fs, cfg |-> cfg, built |-> <<>>,
              conflict |-> FALSE]
    /\ last = NoStep
    /\ trace = <<>>

Unused == <<fs, cfg, pc, tasks, answers, cur, last, trace, inP, inQ>>

\* src/program.py:14-17 -- normalize_path on both paths.
DoNormalize ==
    /\ derived.op = "none"
    /\ derived' = [op |-> "norm", p |-> normalize_path(inP), q |-> normalize_path(inQ)]
    /\ UNCHANGED Unused

\* src/program.py:51-54 -- both paths as keys of storage A, addition direction.
DoAddPair ==
    /\ derived.op = "none"
    /\ derived' = [op |-> "add", p |-> AddDerive(BaseDir("A"), inP),
                   q |-> AddDerive(BaseDir("A"), inQ)]
    /\ UNCHANGED Unused

\* src/program.py:93-97 against 51-54 -- inP as a key, and marked for removal.
DoRemoval ==
    /\ derived.op = "none"
    /\ \E ws \in {<<>>, <<" ">>} :
         derived' = [op |-> "rem", p |-> RemDerive(BaseDir("A"), <<"-">> \o ws \o inP),
                     q |-> AddDerive(BaseDir("A"), inP)]
    /\ UNCHANGED Unused

NextDerive ==
    \/ DoNormalize
    \/ DoAddPair
    \/ DoRemoval

SpecDerive == InitDerive /\ [][NextDerive]_vars

\* A home-relative path: not empty, no empty component.
ValidRel(p) ==
    /\ p # <<>>
    /\ p[1] # "/"
    /\ p[Len(p)] # "/"
    /\ \A i \in 1..(Len(p) - 1) : ~(p[i] = "/" /\ p[i + 1] = "/")

\* ------------------------------------------------------------------ claims

Range(q) == { q[i] : i \in 1..Len(q) }

\* The task a key stands for, in the direction its marker selects.
TaskOfKey(d) ==
    IF IsRemoval(d.raw) THEN RemDerive(BaseDir(d.sid), d.raw)
    ELSE AddDerive(BaseDir(d.sid), d.raw)

\* The home path anc is a directory above the home path desc.
ProperAncestor(anc, desc) == StartsWith(desc, anc \o <<"/">>)

Related(a, b) == a = b \/ ProperAncestor(a, b) \/ ProperAncestor(b, a)

\* What is at a path, the link itself when it is one, with all beneath it.
Tree(f, path) ==
    LET s == Lstat(f, path)
    IN IF s.st # "ok" THEN {}
       ELSE { <<Drop(l, Len(s.loc)), f[l]>> : l \in { m \in DOMAIN f : Under(m, s.loc) } }

\* The entry at a path itself: where it really is and what it is.
Entry(f, path) ==
    LET s == Lstat(f, path)
    IN IF s.st # "ok" THEN <<>> ELSE <<s.loc, f[s.loc]>>

\* The task at the head of the list finds a symlink at src that does not
\* read its dst.
HeadIsBroken ==
    /\ pc \in {"add", "rem"}
    /\ tasks # <<>>
    /\ IsLink(fs, Head(tasks).src)
    /\ ReadLink(fs, Head(tasks).src) # Head(tasks).dst

\* The symlinks at declared home paths that read the dst of no key of that
\* home path: their real locations.
ForeignLinks ==
    { Lstat(fs, TaskOfKey(cfg[i]).src).loc : i \in
        { k \in 1..Len(cfg) :
            LET t == TaskOfKey(cfg[k])
            IN /\ IsLink(fs, t.src)
               /\ \A j \in 1..Len(cfg) :
                    TaskOfKey(cfg[j]).src = t.src
                        => ReadLink(fs, t.src) # TaskOfKey(cfg[j]).dst } }

\* C1 -- symlink safety: a step of either pass on a task whose src is a
\* symlink that does not read the task's dst changes nothing in the
\* filesystem, and no step of any pass removes, replaces or retargets a
\* symlink at a declared home path that reads the dst of no key of that path.
C1_SymlinkSafety ==
    [][ /\ HeadIsBroken => fs' = fs
        /\ \A l \in ForeignLinks : l \in DOMAIN fs' /\ fs'[l] = fs[l] ]_vars

\* An addition step and a removal step have each met such a symlink.
C1_Witness ==
    /\ last.end \in {"raise", "notlink"}
    /\ IsLink(last.pre, last.task.src)
    /\ ReadLink(last.pre, last.task.src) # last.task.dst
    /\ IsLink(fs, last.task.src)

\* The passes n - 1 and n of the trace are a run of apply_additions and a
\* second one right after it: the same configuration, the same answers to the
\* same questions, neither killed.
TwoAdditions(n) ==
    /\ n >= 2
    /\ n <= Len(trace)
    /\ trace[n - 1].kind = "add"
    /\ trace[n].kind = "add"
    /\ trace[n - 1].cfg = trace[n].cfg
    /\ trace[n - 1].end # "killed"
    /\ trace[n].end # "killed"
    /\ \A q \in DOMAIN trace[n - 1].answers \cap DOMAIN trace[n].answers :
            trace[n - 1].answers[q] = trace[n].answers[q]

\* C2 -- idempotence of addition: a second run of apply_additions right after
\* a first one leaves the filesystem as the first run left it, and a task
\* whose src already is a symlink to its dst changes nothing.
C2_Idempotent ==
    /\ (pc = "idle" /\ TwoAdditions(Len(trace))) => fs = trace[Len(trace)].pre
    /\ last.end = "already" => fs = last.pre

AllYes(given) == \A q \in DOMAIN given : given[q]

Unmarked(c) == \A i \in 1..Len(c) : ~IsRemoval(c[i].raw)

MarkAll(c) == [i \in 1..Len(c) |-> [c[i] EXCEPT !.raw = <<"-">> \o @]]

\* The passes n - 1 and n: apply_additions on keys none of which is marked,
\* then apply_removals on the same keys all marked, no type conflict, every
\* confirmation accepted, both passes run to their end.
RoundTrip(n) ==
    /\ n >= 2
    /\ n <= Len(trace)
    /\ trace[n - 1].kind = "add"
    /\ trace[n].kind = "rem"
    /\ Unmarked(trace[n - 1].cfg)
    /\ trace[n].cfg = MarkAll(trace[n - 1].cfg)
    /\ trace[n - 1].end = "done"
    /\ trace[n].end = "done"
    /\ ~trace[n - 1].conflict
    /\ ~trace[n].conflict
    /\ AllYes(trace[n - 1].answers)
    /\ AllYes(trace[n].answers)

\* C3 -- round trip: additions and then removals of the same paths restore
\* the filesystem the additions started from.
C3_RoundTrip ==
    (pc = "idle" /\ RoundTrip(Len(trace))) => fs = trace[Len(trace) - 1].pre

\* C4 -- per-task isolation: a task that met a recoverable condition (a
\* symlink to something else than dst, a declined move) is skipped and the
\* pass goes on; the pass does not end in an exception there.
C4_Isolation ==
    (last.wrong \/ last.end = "cancel") => last.end # "raise"

\* C5 -- addition ordering: in the sorted task list of apply_additions no
\* task comes before a task of a directory above it, and when a task has
\* been handled, the entry at the src of every task of a directory above it
\* was still the one the pass found there.
C5_DescendantFirst ==
    cur.kind = "add" =>
        /\ \A i, j \in 1..Len(cur.built) :
              i < j => ~ProperAncestor(cur.built[i].src, cur.built[j].src)
        /\ last.end # "none" =>
              \A u \in Range(cur.built) :
                  ProperAncestor(u.src, last.task.src)
                      => Entry(last.pre, u.src) = Entry(cur.pre, u.src)

\* The file inside the directory has been moved and linked while the task of
\* the directory waits and the directory is still a directory in the home.
C5_Witness ==
    /\ pc = "add"
    /\ last.end = "linked"
    /\ Exists(last.pre, last.task.src)
    /\ \E k \in 1..Len(tasks) :
          /\ ProperAncestor(tasks[k].src, last.task.src)
          /\ IsDir(fs, tasks[k].src)
          /\ ~IsLink(fs, tasks[k].src)

\* The declaration expects a directory where a plain file is, or a file where
\* a directory is.
TypeMismatch(f, t) ==
    \/ t.is_dir /\ IsFile(f, t.src)
    \/ ~t.is_dir /\ IsDir(f, t.src)

\* The keys of the running pass's direction whose expected type the entry at
\* src contradicted when the pass began.
MismatchedKeys ==
    { i \in 1..Len(cur.cfg) :
        /\ IsRemoval(cur.cfg[i].raw) <=> (cur.kind = "rem")
        /\ TypeMismatch(cur.pre, TaskOfKey(cur.cfg[i])) }

\* Where the paths of a task lead when the pass begins: the real locations
\* of its src (the link's own when it is one) and of its dst.
Places(t) ==
    { Lstat(cur.pre, p).loc : p \in { q \in {t.src, t.dst} : Lstat(cur.pre, q).st # "err" } }

\* No task of the pass is about the src or the dst of t: none names a path
\* at, above or below them, and none leads to a location at, above or below
\* theirs.
Apart(t) ==
    /\ Lstat(cur.pre, t.dst).st # "err"
    /\ \A u \in Range(cur.built) :
          /\ ~Related(u.src, t.src)
          /\ ~Related(u.dst, t.dst)
          /\ Lstat(cur.pre, u.src).st # "err"
          /\ Lstat(cur.pre, u.dst).st # "err"
          /\ \A a \in Places(u), b \in Places(t) : ~Under(a, b) /\ ~Under(b, a)

\* The keys of the pass without key number i.
WithoutKey(c, i) == SubSeq(c, 1, i - 1) \o SubSeq(c, i + 1, Len(c))

\* C6 -- type safety: for a declaration that expects a directory where a
\* plain file is (or a file where a directory is) no task is in the list of
\* the pass, in either direction: the list is the one the other declarations
\* give without it, and what is at its src and at its dst stays as the pass
\* found it while no other declaration's task is about them.
C6_TypeSafety ==
    cur.kind # "none" =>
        \A i \in MismatchedKeys :
            LET t == TaskOfKey(cur.cfg[i])
                others == WithoutKey(cur.cfg, i)
            IN /\ \A u \in Range(cur.built) :
                     ~(u.src = t.src /\ u.dst = t.dst /\ u.is_dir = t.is_dir)
               /\ cur.built = IF cur.kind = "add"
                              THEN SortAdditions(BuildAdditions(cur.pre, others))
                              ELSE SortRemovals(BuildRemovals(cur.pre, others))
               /\ Apart(t) => /\ Tree(fs, t.src) = Tree(cur.pre, t.src)
                              /\ Tree(fs, t.dst) = Tree(cur.pre, t.dst)

\* A pass dropped a mismatched declaration and has changed the filesystem for
\* another one.
C6_Witness ==
    /\ cur.kind # "none"
    /\ fs # cur.pre
    /\ last.end \in {"linked", "unlinked"}
    /\ \E i \in MismatchedKeys : Apart(TaskOfKey(cur.cfg[i]))

\* The passes n - 1 and n: a pass that was killed, and then a whole pass of
\* the same direction over the same configuration, every confirmation
\* accepted, where the pass would have run to its end had nothing killed it.
Reentered(n) ==
    /\ n >= 2
    /\ n <= Len(trace)
    /\ trace[n - 1].end = "killed"
    /\ trace[n].end # "killed"
    /\ trace[n].kind = trace[n - 1].kind
    /\ trace[n].cfg = trace[n - 1].cfg
    /\ AllYes(trace[n - 1].answers)
    /\ AllYes(trace[n].answers)
    /\ RunPass(trace[n - 1].pre, trace[n - 1].cfg, trace[n - 1].kind).end = "done"

\* C7 -- interrupted re-entry: a whole pass after a killed one does not fail
\* and leaves at every declared src and dst what the pass would have left
\* there had it not been killed.
C7_Reentry ==
    (pc = "idle" /\ Reentered(Len(trace))) =>
        LET n == Len(trace)
            u == RunPass(trace[n - 1].pre, trace[n].cfg, trace[n].kind).fs
        IN /\ trace[n].end = "done"
           /\ \A i \in 1..Len(trace[n].cfg) :
                LET t == TaskOfKey(trace[n].cfg[i])
                IN /\ Tree(fs, t.src) = Tree(u, t.src)
                   /\ Tree(fs, t.dst) = Tree(u, t.dst)

\* C8 -- collision-freedom: two distinct valid home-relative paths have
\* distinct normalize_path results, and two keys of one storage with distinct
\* src have distinct dst.
C8_CollisionFree ==
    /\ (derived.op = "norm" /\ ValidRel(inP) /\ ValidRel(inQ) /\ inP # inQ)
          => derived.p # derived.q
    /\ (derived.op = "add" /\ ~IsRemoval(inP) /\ ~IsRemoval(inQ)
            /\ derived.p.src # derived.q.src)
          => derived.p.dst # derived.q.dst

\* C9 -- stable derivation: the src and dst apply_removals derives from a key
\* marked with "-" (and optional whitespace) are the src and dst
\* apply_additions derives from the key without the mark.
C9_StableDerivation ==
    (derived.op = "rem" /\ ~IsRemoval(inP)) =>
        /\ derived.p.src = derived.q.src
        /\ derived.p.dst = derived.q.dst

\* C10 -- one task per home path: the task list a pass builds holds no two
\* tasks with the same src.
C10_OneTaskPerSrc ==
    cur.kind # "none" =>
        \A i, j \in 1..Len(cur.built) :
            i # j => cur.built[i].src # cur.built[j].src

\* The last step was a task of apply_additions whose src was a plain existing
\* entry (no symlink) when the step began.
AddOnPlain ==
    /\ cur.kind = "add"
    /\ last.end # "none"
    /\ ~IsLink(last.pre, last.task.src)
    /\ Exists(last.pre, last.task.src)

\* The last step was a task of apply_removals whose src was a symlink reading
\* exactly dst, with something at dst, when the step began.
RemOnLinked ==
    /\ cur.kind = "rem"
    /\ last.end # "none"
    /\ IsLink(last.pre, last.task.src)
    /\ ReadLink(last.pre, last.task.src) = last.task.dst
    /\ Exists(Del(last.pre, Lstat(last.pre, last.task.src).loc), last.task.dst)

\* The move of the last step goes from one device to another: the entry that
\* is moved and the place it is moved to.
CrossesDevices ==
    IF cur.kind = "add"
    THEN DevOf(Stat(last.pre, last.task.src).loc) # DevOf(Lstat(last.pre, last.task.dst).loc)
    ELSE DevOf(Stat(last.pre, last.task.dst).loc) # DevOf(Lstat(last.pre, last.task.src).loc)

\* The last step moved something: the plain entry at src is gone from there
\* (addition), the entry at dst is gone from there (removal).
MoveHappened ==
    \/ AddOnPlain /\ Entry(fs, last.task.src) # Entry(last.pre, last.task.src)
    \/ RemOnLinked /\ Entry(fs, last.task.dst) # Entry(last.pre, last.task.dst)

\* What the operator answered to the question of the last step.
LastAnswer ==
    LET q == IF cur.kind = "add" THEN <<last.task.src, last.task.dst>>
             ELSE <<last.task.dst, last.task.src>>
    IN q \in DOMAIN answers /\ answers[q]

\* C11 -- device-boundary guard: the operator is asked only about a move
\* between two devices, is asked about every such move the pass comes to, and
\* no move between two devices happens without the answer yes.
C11_DeviceGuard ==
    /\ last.asked => (AddOnPlain \/ RemOnLinked) /\ CrossesDevices
    /\ ((AddOnPlain \/ RemOnLinked) /\ CrossesDevices /\ last.end \notin {"killed", "raise"})
          => last.asked
    /\ (MoveHappened /\ CrossesDevices) => last.asked /\ LastAnswer
    /\ (MoveHappened /\ ~CrossesDevices) => ~last.asked

\* Both kinds of move have happened: one the operator was asked about and
\* agreed to, between devices, and one on a single device without a question.
C11_Witness ==
    /\ MoveHappened
    /\ CrossesDevices
    /\ last.asked
    /\ LastAnswer
    /\ last.end \in {"linked", "unlinked"}

\* The last step was a task of apply_additions that found nothing at src
\* and nothing at dst.
AddOnNothing ==
    /\ cur.kind = "add"
    /\ last.end # "none"
    /\ ~IsLink(last.pre, last.task.src)
    /\ ~Exists(last.pre, last.task.src)
    /\ ~Exists(last.pre, last.task.dst)

\* C12 -- addition post-condition: after an addition task that was not
\* skipped, src is a symlink reading dst and dst exists; dst is the entry that
\* was at src, or, when nothing was at src, an empty directory (is_dir) or an
\* empty regular file.
C12_AddPostcondition ==
    ((AddOnPlain \/ AddOnNothing) /\ last.end = "linked") =>
        /\ IsLink(fs, last.task.src)
        /\ ReadLink(fs, last.task.src) = last.task.dst
        /\ Exists(fs, last.task.dst)
        /\ AddOnPlain => Tree(fs, last.task.dst) = Tree(last.pre, last.task.src)
        /\ AddOnNothing =>
              Tree(fs, last.task.dst) =
                  { <<<<>>, IF last.task.is_dir THEN DirNode ELSE FileNode(<<>>)>> }

\* The last step was a task of apply_removals whose src was not a symlink
\* reading exactly dst: absent, a plain entry, or a symlink to elsewhere.
RemOnOther ==
    /\ cur.kind = "rem"
    /\ last.end # "none"
    /\ ~(IsLink(last.pre, last.task.src)
            /\ ReadLink(last.pre, last.task.src) = last.task.dst)

\* C13 -- removal touches only exactly-linked paths: a removal task whose src
\* is not a symlink reading exactly dst changes nothing in the filesystem
\* (src, dst and the parent of src stay as they were) and the pass goes on.
C13_RemovalFrame ==
    RemOnOther =>
        /\ fs = last.pre
        /\ Tree(fs, last.task.src) = Tree(last.pre, last.task.src)
        /\ Tree(fs, last.task.dst) = Tree(last.pre, last.task.dst)
        /\ Tree(fs, Dirname(last.task.src)) = Tree(last.pre, Dirname(last.task.src))
        /\ last.end = "notlink"

\* A removal task found a plain entry or a symlink to elsewhere at src while
\* its dst existed.
C13_Witness ==
    /\ RemOnOther
    /\ Exists(last.pre, last.task.dst)
    /\ \/ Exists(last.pre, last.task.src) /\ ~IsLink(last.pre, last.task.src)
       \/ IsLink(last.pre, last.task.src)

\* The tasks of the running pass for a directory above the src of the task
\* handled last.
AncestorsOfLast ==
    { u \in Range(cur.built) : ProperAncestor(u.src, last.task.src) }

\* C14 -- removal ordering: in the sorted task list of apply_removals no task
\* comes before a task of a directory above it; when a task is handled no
\* task of a directory above it is still waiting, the symlink of every such
\* task is gone, and where the operator agreed to everything a directory
\* that was linked is back in the home as a real directory.
C14_AncestorFirst ==
    cur.kind = "rem" =>
        /\ \A i, j \in 1..Len(cur.built) :
              i < j => ~ProperAncestor(cur.built[j].src, cur.built[i].src)
        /\ last.end # "none" =>
              /\ \A k \in 1..Len(tasks) : tasks[k] \notin AncestorsOfLast
              /\ \A u \in AncestorsOfLast :
                    /\ ~CorrectLink(last.pre, u)
                    /\ (CorrectLink(cur.pre, u) /\ IsDir(cur.pre, u.dst) /\ AllYes(answers))
                          => IsDir(last.pre, u.src) /\ ~IsLink(last.pre, u.src)

\* The directory was unlinked and moved back, and then the file inside it
\* was unlinked and moved back into the real directory.
C14_Witness ==
    /\ cur.kind = "rem"
    /\ last.end = "unlinked"
    /\ CorrectLink(last.pre, last.task)
    /\ \E u \in AncestorsOfLast :
          /\ CorrectLink(cur.pre, u)
          /\ IsDir(last.pre, u.src)
          /\ ~IsLink(last.pre, u.src)

\* The pass of the last step goes on after it: it is still running, or it
\* has come to its end without an exception.
PassGoesOn ==
    \/ pc = cur.kind
    \/ pc = "idle" /\ trace # <<>> /\ trace[Len(trace)].end = "done"

\* C15 -- operator decline in addition: when src is a plain existing entry
\* and the operator declines the move, the task changes nothing (src, dst, no
\* symlink) and the remaining tasks are still processed.
C15_DeclineAddition ==
    (AddOnPlain /\ last.asked /\ ~LastAnswer) =>
        /\ fs = last.pre
        /\ last.end = "cancel"
        /\ PassGoesOn

\* The operator declined the move of an addition task and another task waits.
C15_Witness ==
    /\ AddOnPlain
    /\ last.asked
    /\ ~LastAnswer
    /\ last.end = "cancel"
    /\ pc = "add"
    /\ tasks # <<>>

\* C16 -- operator decline in removal: when src is a symlink to dst, dst
\* exists and the operator declines the move back, the task ends with the
\* symlink removed and nothing at src, dst is as it was (not moved, not
\* deleted), and the remaining tasks are still processed.
C16_DeclineRemoval ==
    (RemOnLinked /\ last.asked /\ ~LastAnswer) =>
        /\ Lstat(fs, last.task.src).st # "ok"
        /\ fs = Del(last.pre, Lstat(last.pre, last.task.src).loc)
        /\ Exists(fs, last.task.dst)
        /\ Tree(fs, last.task.dst) = Tree(last.pre, last.task.dst)
        /\ last.end = "cancel"
        /\ PassGoesOn

\* The operator declined the move back of a removal task: the symlink is
\* gone, the content is at dst.
C16_Witness ==
    /\ RemOnLinked
    /\ last.asked
    /\ ~LastAnswer
    /\ last.end = "cancel"
    /\ ~IsLink(fs, last.task.src)
    /\ Exists(fs, last.task.dst)

\* What is seen at a path with symlinks followed, with all beneath it.
TreeThrough(f, path) ==
    LET s == Stat(f, path)
    IN IF s.st # "ok" THEN {}
       ELSE { <<Drop(l, Len(s.loc)), f[l]>> : l \in { m \in DOMAIN f : Under(m, s.loc) } }

\* C17 -- content preservation under destination collision: an addition task
\* leaves every entry that was at dst before it ran in place and as it was,
\* and the entry it moved from src is what the symlink at src leads to.
C17_NoOverwrite ==
    (cur.kind = "add" /\ last.end # "none") =>
        /\ Tree(last.pre, last.task.dst) \subseteq Tree(fs, last.task.dst)
        /\ (AddOnPlain /\ last.end = "linked")
              => TreeThrough(fs, last.task.src) = Tree(last.pre, last.task.src)

\* The last step was a removal task that moved dst back to src.
MovedBack ==
    /\ RemOnLinked
    /\ last.end = "unlinked"

\* An empty directory is at the dst of the task handled last.
EmptyDirAtDst ==
    /\ IsDir(fs, last.task.dst)
    /\ ListDir(fs, last.task.dst) = {}

\* C18 -- backing cleanup, as the code has it: after a removal task whose
\* move back succeeded nothing is at dst, and the rmdir of the cleanup step is
\* never carried out in any task; an empty directory stays at dst only after
\* a task that moved nothing (src no symlink to dst, or the move declined).
C18_CleanupAfterMove ==
    /\ MovedBack => Lstat(fs, last.task.dst).st # "ok"
    /\ ~last.cleaned
    /\ (cur.kind = "rem" /\ last.end \in {"unlinked", "cancel", "notlink"} /\ EmptyDirAtDst)
          => /\ last.end \in {"cancel", "notlink"}
             /\ Tree(fs, last.task.dst) = Tree(last.pre, last.task.dst)

\* C18 -- backing cleanup, as stated: nothing at dst after a move back, the
\* rmdir never carried out, and no removal task at all leaves an empty
\* directory at dst.
C18_NoEmptyDirLeft ==
    /\ MovedBack => Lstat(fs, last.task.dst).st # "ok"
    /\ ~last.cleaned
    /\ (cur.kind = "rem" /\ last.end \in {"unlinked", "cancel", "notlink"})
          => ~EmptyDirAtDst

\* A removal task moved an empty directory back from dst: the cleanup step
\* found nothing left to remove.
C18_Witness ==
    /\ MovedBack
    /\ IsDir(last.pre, last.task.dst)
    /\ ListDir(last.pre, last.task.dst) = {}
    /\ Lstat(fs, last.task.dst).st # "ok"
    /\ IsDir(fs, last.task.src)

====
